---- MODULE Spec2Model ----
(***************************************************************************)
(* Schema-drift pipeline of ZEN-LLM-FinalProject: the drift mutator        *)
(* (src/02_mutate_patch.py), the repair engine                             *)
(* (src/schema_repair_patcher.py, src/03_repair_patch.py), the structural  *)
(* verifier (src/06_compare_original_vs_repaired.py) and the batch driver  *)
(* (run_pipeline.py).                                                      *)
(*                                                                         *)
(* JSON values are records [isdict, id, kv]: a mapping has isdict = TRUE   *)
(* and kv = its key -> value function; every other value (number, string,  *)
(* list, null) has isdict = FALSE and is told apart by id.  A patch is the *)
(* key -> value function of its top-level mapping.                         *)
(***************************************************************************)
EXTENDS Integers, Sequences, FiniteSets, TLC

VARIABLES
    pc,          \* where the pipeline is: "mutate", "select", "check", "drift", "oracle",
                 \* "repair", "apply", "compare", "done", "finished", "failed"
    err,         \* the exception that ended the failing script, "" when none
    args,        \* command line of 02_mutate_patch.py: [mode, order, seed, trial_id]
    orig,        \* data/patch_reference.json: the patch under obj["patch"]
    mem,         \* the in-memory patch of the script that ran last
    mutated,     \* data/patch_mutated.json: [exists, v]
    mlog,        \* data/mutation_log.json: [exists, v]
    plan,        \* data/repair_plan.json: [exists, v]
    repaired,    \* data/patch_repaired.json: [exists, v]
    params,      \* the mutator's selected drifts and their parameters
    todo,        \* the drift steps the mutator still has to carry out
    sorted,      \* apply_plan_to_patch: the sorted actions
    idx,         \* apply_plan_to_patch: how many of them the loop has handled
    logs,        \* apply_plan_to_patch: the log lines so far
    verdict,     \* what 06_compare printed: [functions_keyset, top_level_keys]
    opts,        \* command line of run_pipeline.py
    trial,       \* run_pipeline.py: t, the trial under way
    rows,        \* data/trial_results.csv: the rows after the header
    success_count \* run_pipeline.py: trials counted as passed so far

\* the state of the batch driver
driver == <<opts, trial, rows, success_count>>

vars ==
    <<pc, err, args, orig, mem, mutated, mlog, plan, repaired, params, todo,
      sorted, idx, logs, verdict, opts, trial, rows, success_count>>

(***************************************************************************)
(* Bounds of the model.                                                    *)
(***************************************************************************)
MaxFns == 2        \* a functions container holds at most this many functions f1, f2, ..
MaxPlanLen == 2    \* an arbitrary repair plan holds at most this many actions
MaxTrials == 2     \* the batch driver is asked for at most this many trials

(***************************************************************************)
(* Drift vocabulary, src/schema_drift_config.py.                           *)
(***************************************************************************)
CANON_KEY == "functions"

RENAME_VARIANTS ==
    <<"function", "Functions", "funcs", "fn_map", "function_map",
      "functions_map", "functions_dict">>

WRAPPER_VARIANTS ==
    <<"wrapper", "new_wrapper", "new_schema", "new_layout", "wrapped",
      "temp_wrapper">>

EXTRA_STRUCT_KEYS ==
    <<"extra_struct_1", "extra_struct_2", "temp_block", "temp_struct">>

Range(s) == {s[i] : i \in 1..Len(s)}

(***************************************************************************)
(* JSON values and Python dict operations.                                 *)
(***************************************************************************)
EmptyMap == [k \in {} |-> 0]

Leaf(n) == [isdict |-> FALSE, id |-> n, kv |-> EmptyMap]

Dict(f) == [isdict |-> TRUE, id |-> 0, kv |-> f]

\* Python's None: what dict.get returns for a missing key.
NoneVal == Leaf(0)

\* isinstance(v, dict)
IsDict(v) == v.isdict

\* d.get(k, default)
Get(d, k, default) == IF k \in DOMAIN d THEN d[k] ELSE default

\* d[k] = v
Put(d, k, v) == [x \in (DOMAIN d) \cup {k} |-> IF x = k THEN v ELSE d[x]]

\* d without key k (the dict left behind by d.pop(k))
Without(d, k) == [x \in (DOMAIN d) \ {k} |-> d[x]]

\* d[dst] = d.pop(src)
Move(d, src, dst) == Put(Without(d, src), dst, d[src])

\* a file that was not written
NoFile == [exists |-> FALSE, v |-> EmptyMap]

File(v) == [exists |-> TRUE, v |-> v]

\* the strings standing for None and for an unhashable JSON value (a
\* non-empty list or a mapping) where the code expects a string
NoneS == "<None>"

\* None where the command line expects an integer (--seed, --trial-id)
NoneN == -1

\* the JSON value of an integer argument, null when it was not given
ArgVal(n) == IF n = NoneN THEN NoneVal ELSE Leaf(100 + n)

UNHASHABLE == "<unhashable>"

\* Python truthiness of an action field: None and "" are falsy
Truthy(s) == s \notin {NoneS, ""}

(***************************************************************************)
(* Repair engine: SchemaRepairPatcher.apply_plan_to_patch.                 *)
(* An entry of plan["actions"] is [isdict, d]: d is the mapping of the     *)
(* fields the entry has ("op", "path", "from", "to", "wrapper_key") when   *)
(* the entry is a mapping.  A plan is [kind, actions]: kind says whether   *)
(* plan["actions"] is a list, is missing, or is something else.            *)
(***************************************************************************)
\* a.get(k)
AGet(a, k) == IF k \in DOMAIN a.d THEN a.d[k] ELSE NoneS

\* a.get("path", [])
APath(a) == IF "path" \in DOMAIN a.d THEN a.d["path"] ELSE <<>>

\* one line of the returned log: position, kind of action, outcome
Log(i, op, outcome) == [i |-> i, op |-> op, outcome |-> outcome]

\* the result of handling one action; raised = a TypeError left the loop
Res(patch, log) == [patch |-> patch, log |-> log, raised |-> FALSE]

Raise(patch) == [patch |-> patch, log |-> Log(0, "raise", "TypeError"), raised |-> TRUE]

\* priority.get(a.get("op") if isinstance(a, dict) else None, 99)
Priority(a) ==
    IF ~a.isdict THEN 99
    ELSE IF AGet(a, "op") = "rename_key" THEN 0
    ELSE IF AGet(a, "op") = "unwrap" THEN 1
    ELSE 99

\* the key function of the sort hashes a.get("op"): an unhashable op raises
SortRaises(actions) ==
    \E k \in 1..Len(actions) : actions[k].isdict /\ AGet(actions[k], "op") = UNHASHABLE

HasPriority0(a) == Priority(a) = 0

HasPriority1(a) == Priority(a) = 1

HasPriority99(a) == Priority(a) = 99

\* a variant of the sort that keeps the plan's order
SortActionsPlanOrder(actions) == actions

\* sorted(actions, key=priority): Python's sort is stable, the keys are 0, 1, 99
SortActions(actions) ==
    SelectSeq(actions, HasPriority0) \o SelectSeq(actions, HasPriority1)
        \o SelectSeq(actions, HasPriority99)

\* a variant of the rename_key branch that moves the value to 'to' also
\* when the patch already has 'to'
RenameKeyOverwrites(patch, a, i) ==
    LET src == AGet(a, "from")
        dst == AGet(a, "to")
    IN  IF ~Truthy(src) \/ ~Truthy(dst)
        THEN Res(patch, Log(i, "rename_key", "Skipped"))
        ELSE IF src = UNHASHABLE
        THEN Raise(patch)
        ELSE IF src \in DOMAIN patch
        THEN IF dst = UNHASHABLE
             THEN Raise(patch)
             ELSE Res(Move(patch, src, dst), Log(i, "rename_key", "Applied"))
        ELSE Res(patch, Log(i, "rename_key", "No change"))

\* a variant of the rename_key branch that pops 'from' without looking
\* whether the patch has it
RenameKeyUnguarded(patch, a, i) ==
    LET src == AGet(a, "from")
        dst == AGet(a, "to")
    IN  IF ~Truthy(src) \/ ~Truthy(dst)
        THEN Res(patch, Log(i, "rename_key", "Skipped"))
        ELSE IF src = UNHASHABLE \/ dst = UNHASHABLE \/ src \notin DOMAIN patch
        THEN Raise(patch)
        ELSE IF dst \notin DOMAIN patch
        THEN Res(Move(patch, src, dst), Log(i, "rename_key", "Applied"))
        ELSE Res(patch, Log(i, "rename_key", "No change"))

\* a variant of the rename_key branch that copies the value to 'to' and
\* keeps 'from', whatever 'to' holds
RenameKeyKeepsSource(patch, a, i) ==
    LET src == AGet(a, "from")
        dst == AGet(a, "to")
    IN  IF ~Truthy(src) \/ ~Truthy(dst)
        THEN Res(patch, Log(i, "rename_key", "Skipped"))
        ELSE IF src = UNHASHABLE \/ dst = UNHASHABLE
        THEN Raise(patch)
        ELSE IF src \in DOMAIN patch
        THEN Res(Put(patch, dst, patch[src]), Log(i, "rename_key", "Applied"))
        ELSE Res(patch, Log(i, "rename_key", "No change"))

\* the rename_key branch
RenameKey(patch, a, i) ==
    LET src == AGet(a, "from")
        dst == AGet(a, "to")
    IN  IF ~Truthy(src) \/ ~Truthy(dst)
        THEN Res(patch, Log(i, "rename_key", "Skipped"))
        ELSE IF src = UNHASHABLE
        THEN Raise(patch)                       \* src in patch hashes src
        ELSE IF src \in DOMAIN patch
        THEN IF dst = UNHASHABLE
             THEN Raise(patch)                  \* dst not in patch hashes dst
             ELSE IF dst \notin DOMAIN patch
             THEN Res(Move(patch, src, dst), Log(i, "rename_key", "Applied"))
             ELSE Res(patch, Log(i, "rename_key", "No change"))
        ELSE Res(patch, Log(i, "rename_key", "No change"))

\* a variant of the unwrap branch that does not require the inner value
\* to be a mapping
UnwrapAnyInner(patch, a, i) ==
    LET path == APath(a)
        wrapper_key == AGet(a, "wrapper_key")
        container == Get(patch, CANON_KEY, NoneVal)
    IN  IF path # <<CANON_KEY>> \/ ~Truthy(wrapper_key)
        THEN Res(patch, Log(i, "unwrap", "Skipped"))
        ELSE IF ~IsDict(container)
        THEN Res(patch, Log(i, "unwrap", "No change"))
        ELSE IF wrapper_key = UNHASHABLE
        THEN Raise(patch)
        ELSE IF wrapper_key \in DOMAIN container.kv
        THEN Res(Put(patch, CANON_KEY, container.kv[wrapper_key]),
                 Log(i, "unwrap", "Applied"))
        ELSE Res(patch, Log(i, "unwrap", "No change"))

\* a variant of the unwrap branch that accepts any path
UnwrapAnyPath(patch, a, i) ==
    LET wrapper_key == AGet(a, "wrapper_key")
        container == Get(patch, CANON_KEY, NoneVal)
    IN  IF ~Truthy(wrapper_key)
        THEN Res(patch, Log(i, "unwrap", "Skipped"))
        ELSE IF ~IsDict(container)
        THEN Res(patch, Log(i, "unwrap", "No change"))
        ELSE IF wrapper_key = UNHASHABLE
        THEN Raise(patch)
        ELSE IF wrapper_key \in DOMAIN container.kv /\ IsDict(container.kv[wrapper_key])
        THEN Res(Put(patch, CANON_KEY, container.kv[wrapper_key]),
                 Log(i, "unwrap", "Applied"))
        ELSE Res(patch, Log(i, "unwrap", "No change"))

\* the unwrap branch
Unwrap(patch, a, i) ==
    LET path == APath(a)
        wrapper_key == AGet(a, "wrapper_key")
        container == Get(patch, CANON_KEY, NoneVal)
    IN  IF path # <<CANON_KEY>> \/ ~Truthy(wrapper_key)
        THEN Res(patch, Log(i, "unwrap", "Skipped"))
        ELSE IF ~IsDict(container)
        THEN Res(patch, Log(i, "unwrap", "No change"))
        ELSE IF wrapper_key = UNHASHABLE
        THEN Raise(patch)                       \* wrapper_key in container hashes it
        ELSE IF wrapper_key \in DOMAIN container.kv /\ IsDict(container.kv[wrapper_key])
        THEN Res(Put(patch, CANON_KEY, container.kv[wrapper_key]),
                 Log(i, "unwrap", "Applied"))
        ELSE Res(patch, Log(i, "unwrap", "No change"))

\* the body of the loop over the sorted actions
ApplyAction(patch, a, i) ==
    IF ~a.isdict
    THEN Res(patch, Log(i, "invalid", "Skipped"))
    ELSE IF AGet(a, "op") = "rename_key" THEN RenameKey(patch, a, i)
    ELSE IF AGet(a, "op") = "unwrap" THEN Unwrap(patch, a, i)
    ELSE Res(patch, Log(i, "unknown", "Skipped"))

\* for i, a in enumerate(actions): k is the 1-based position, i = k - 1
RECURSIVE ApplyLoop(_, _, _, _)
ApplyLoop(patch, actions, k, ls) ==
    IF k > Len(actions)
    THEN [patch |-> patch, logs |-> ls, err |-> ""]
    ELSE LET r == ApplyAction(patch, actions[k], k - 1)
         IN  IF r.raised
             THEN [patch |-> r.patch, logs |-> ls, err |-> "TypeError"]
             ELSE ApplyLoop(r.patch, actions, k + 1, Append(ls, r.log))

\* plan.get("actions", [])
PlanActions(p) == IF p.kind = "missing" THEN <<>> ELSE p.actions

\* apply_plan_to_patch(patch, plan): the patch as the call leaves it, the
\* log it returns, and the exception it raises ("" when it returns)
ApplyPlan(patch, p) ==
    IF p.kind = "notlist"
    THEN [patch |-> patch, logs |-> <<>>, err |-> "ValueError"]
    ELSE IF SortRaises(PlanActions(p))
    THEN [patch |-> patch, logs |-> <<>>, err |-> "TypeError"]
    ELSE ApplyLoop(patch, SortActions(PlanActions(p)), 1, <<>>)

(***************************************************************************)
(* Drift mutator: main of src/02_mutate_patch.py.                          *)
(***************************************************************************)
Modes == {"wrapper", "rename", "extra", "both", "all", "random"}

Orders == {"rename_then_wrap", "wrap_then_rename", "random"}

\* lines 59-70: the drift families of a mode; r, w, e are the three coin
\* flips of mode "random"
UseFlags(mode, r, w, e) ==
    IF mode = "random"
    THEN [use_rename |-> r,
          use_wrap |-> IF ~(r \/ w \/ e) THEN TRUE ELSE w,
          use_extra |-> e]
    ELSE [use_rename |-> mode \in {"rename", "both", "all"},
          use_wrap |-> mode \in {"wrapper", "both", "all"},
          use_extra |-> mode \in {"extra", "all"}]

\* line 75: candidates = [k for k in RENAME_VARIANTS if k not in patch]
Candidates(patch) == {k \in Range(RENAME_VARIANTS) : k \notin DOMAIN patch}

\* lines 86-92: the order random.choice may give when --order is random
OpOrders(flags, order) ==
    IF flags.use_rename /\ flags.use_wrap
    THEN IF order = "random" THEN {"rename_then_wrap", "wrap_then_rename"} ELSE {order}
    ELSE {"n/a"}

\* lines 45-46 and every random.choice(seq) after them.  With a seed the
\* generator is a function of the seed: the k-th draw (k = 0, 1, ..) from
\* a list of n entries is determined by seed, k and n.  Without a seed the
\* generator starts from ambient state and the draw may be any entry.
Draw(seed, k, n) == ((seed + k) % n) + 1

Choice(seed, k, seq) ==
    IF seed = NoneN THEN Range(seq) ELSE {seq[Draw(seed, k, Len(seq))]}

\* lines 59-70 with the draws of the generator
FlagChoices(a) ==
    IF a.mode = "random"
    THEN {UseFlags(a.mode, r, w, e) :
            r \in Choice(a.seed, 0, <<TRUE, FALSE>>),
            w \in Choice(a.seed, 1, <<TRUE, FALSE>>),
            e \in Choice(a.seed, 2, <<TRUE, FALSE>>)}
    ELSE {UseFlags(a.mode, FALSE, FALSE, FALSE)}

\* line 75, in list order
CandidateList(patch) == SelectSeq(RENAME_VARIANTS, LAMBDA k : k \notin DOMAIN patch)

\* lines 73-92: the parameters the draws may give once the families are
\* chosen and a rename target is available
ParamChoices(patch, a, flags) ==
    LET kR == IF a.mode = "random" THEN 3 ELSE 0
        kW == kR + (IF flags.use_rename THEN 1 ELSE 0)
        kE == kW + (IF flags.use_wrap THEN 1 ELSE 0)
        kO == kE + (IF flags.use_extra THEN 1 ELSE 0)
    IN  {[use_rename |-> flags.use_rename, rename_to |-> rename_to,
          use_wrap |-> flags.use_wrap, wrapper_key |-> wrapper_key,
          use_extra |-> flags.use_extra, extra_key |-> extra_key,
          order |-> op_order] :
            rename_to \in (IF flags.use_rename
                           THEN Choice(a.seed, kR, CandidateList(patch)) ELSE {NoneS}),
            wrapper_key \in (IF flags.use_wrap
                             THEN Choice(a.seed, kW, WRAPPER_VARIANTS) ELSE {NoneS}),
            extra_key \in (IF flags.use_extra
                           THEN Choice(a.seed, kE, EXTRA_STRUCT_KEYS) ELSE {NoneS}),
            op_order \in (IF flags.use_rename /\ flags.use_wrap /\ a.order = "random"
                          THEN Choice(a.seed, kO, <<"rename_then_wrap", "wrap_then_rename">>)
                          ELSE OpOrders(flags, a.order))}

\* a variant of the branches that renames first whatever the order is
DriftStepsRenameFirst(p) ==
    IF p.use_rename /\ p.use_wrap THEN <<"rename", "wrap_current", "extra">>
    ELSE IF p.use_rename THEN <<"rename", "extra">>
    ELSE IF p.use_wrap THEN <<"wrap_current", "extra">>
    ELSE <<"extra">>

\* lines 127-162: the steps of the chosen branch, in program order
DriftSteps(p) ==
    IF p.use_rename /\ p.use_wrap
    THEN IF p.order = "rename_then_wrap"
         THEN <<"rename", "wrap_current", "extra">>
         ELSE <<"wrap_canon", "rename", "extra">>
    ELSE IF p.use_rename THEN <<"rename", "extra">>
    ELSE IF p.use_wrap THEN <<"wrap_current", "extra">>
    ELSE <<"extra">>

\* the record add_extra_struct stores under the noise key
Marker(a) ==
    Dict([k \in {"note", "trial_id", "seed"} |->
            IF k = "note" THEN Leaf(9)
            ELSE IF k = "trial_id" THEN ArgVal(a.trial_id)
            ELSE ArgVal(a.seed)])

\* a variant of add_extra_struct that writes the noise record even when
\* the key is already there
add_extra_structOverwrite(container, extra_key, a) ==
    IF ~Truthy(extra_key) THEN container
    ELSE Put(container, extra_key, Marker(a))

\* add_extra_struct(container)
add_extra_struct(container, extra_key, a) ==
    IF ~Truthy(extra_key) THEN container
    ELSE IF extra_key \in DOMAIN container THEN container
    ELSE Put(container, extra_key, Marker(a))

\* current_functions_key(p): the canonical key, else the first rename
\* variant present, else NoneS for the KeyError
current_functions_key(p) ==
    IF CANON_KEY \in DOMAIN p THEN CANON_KEY
    ELSE IF \E n \in 1..Len(RENAME_VARIANTS) : RENAME_VARIANTS[n] \in DOMAIN p
    THEN RENAME_VARIANTS[CHOOSE n \in 1..Len(RENAME_VARIANTS) :
            /\ RENAME_VARIANTS[n] \in DOMAIN p
            /\ \A m \in 1..(n - 1) : RENAME_VARIANTS[m] \notin DOMAIN p]
    ELSE NoneS

\* if rename_to and CANON_KEY in patch and rename_to not in patch:
\*     patch[rename_to] = patch.pop(CANON_KEY)
RenameStep(patch, rename_to) ==
    IF Truthy(rename_to) /\ CANON_KEY \in DOMAIN patch /\ rename_to \notin DOMAIN patch
    THEN Move(patch, CANON_KEY, rename_to)
    ELSE patch

\* one drift step on the in-memory patch: [patch, err]
DriftStep(patch, step, p, a) ==
    IF step = "rename"
    THEN [patch |-> RenameStep(patch, p.rename_to), err |-> ""]
    ELSE IF step = "wrap_canon"
    THEN [patch |-> Put(patch, CANON_KEY, Dict([k \in {p.wrapper_key} |-> patch[CANON_KEY]])),
          err |-> ""]
    ELSE IF step = "wrap_current"
    THEN LET functions_key == current_functions_key(patch)
         IN  IF functions_key = NoneS THEN [patch |-> patch, err |-> "KeyError"]
             ELSE IF ~IsDict(patch[functions_key])
             THEN [patch |-> patch, err |-> "TypeError"]
             ELSE [patch |-> Put(patch, functions_key,
                                 Dict([k \in {p.wrapper_key} |-> patch[functions_key]])),
                   err |-> ""]
    ELSE [patch |-> add_extra_struct(patch, p.extra_key, a), err |-> ""]

NoParams ==
    [use_rename |-> FALSE, rename_to |-> NoneS, use_wrap |-> FALSE,
     wrapper_key |-> NoneS, use_extra |-> FALSE, extra_key |-> NoneS,
     order |-> "n/a"]

\* a script ends with an exception
Fail(e) == pc' = "failed" /\ err' = e

\* lines 48-56: load the patch, require the canonical key
MutateStart ==
    /\ pc = "mutate"
    /\ mem' = orig
    /\ IF CANON_KEY \notin DOMAIN orig
       THEN Fail("KeyError")
       ELSE pc' = "select" /\ err' = err
    /\ UNCHANGED <<args, orig, mutated, mlog, plan, repaired, params, todo,
                   sorted, idx, logs, verdict, driver>>

\* lines 59-92: choose the drift families and their parameters
MutateSelect ==
    /\ pc = "select"
    /\ \E flags \in FlagChoices(args) :
         IF flags.use_rename /\ Candidates(mem) = {}
         THEN Fail("RuntimeError") /\ params' = params
         ELSE \E p \in ParamChoices(mem, args, flags) :
                 /\ params' = p
                 /\ pc' = "check"
                 /\ err' = err
    /\ UNCHANGED <<args, orig, mem, mutated, mlog, plan, repaired, todo,
                   sorted, idx, logs, verdict, driver>>

\* a variant of the step below that lets any canonical value through
MutateCheckNoTypeCheck ==
    /\ pc = "check"
    /\ pc' = "drift" /\ err' = err /\ todo' = DriftSteps(params)
    /\ UNCHANGED <<args, orig, mem, mutated, mlog, plan, repaired, params,
                   sorted, idx, logs, verdict, driver>>

\* lines 123-124: the canonical value must be a dict
MutateCheck ==
    /\ pc = "check"
    /\ IF ~IsDict(mem[CANON_KEY])
       THEN Fail("TypeError") /\ todo' = todo
       ELSE pc' = "drift" /\ err' = err /\ todo' = DriftSteps(params)
    /\ UNCHANGED <<args, orig, mem, mutated, mlog, plan, repaired, params,
                   sorted, idx, logs, verdict, driver>>

\* lines 127-159: the next step of the chosen branch
MutateStep ==
    /\ pc = "drift"
    /\ todo # <<>>
    /\ LET r == DriftStep(mem, Head(todo), params, args)
       IN  /\ mem' = r.patch
           /\ IF r.err # ""
              THEN Fail(r.err) /\ todo' = todo
              ELSE pc' = pc /\ err' = err /\ todo' = Tail(todo)
    /\ UNCHANGED <<args, orig, mutated, mlog, plan, repaired, params,
                   sorted, idx, logs, verdict, driver>>

\* lines 168-179: the mutation record
MutationLog(a, p) ==
    [trial_id |-> a.trial_id, seed |-> a.seed,
     mode |-> a.mode, use_rename |-> p.use_rename, rename_to |-> p.rename_to,
     use_wrap |-> p.use_wrap, wrapper_key |-> p.wrapper_key,
     use_extra_struct |-> p.use_extra, extra_struct_key |-> p.extra_key,
     order |-> p.order]

\* lines 164-182: write the mutated patch and the mutation record
MutateWrite ==
    /\ pc = "drift"
    /\ todo = <<>>
    /\ mutated' = File(mem)
    /\ mlog' = File(MutationLog(args, params))
    /\ pc' = "oracle"
    /\ UNCHANGED <<err, args, orig, mem, plan, repaired, params, todo,
                   sorted, idx, logs, verdict, driver>>

\* lines 127-159 run to the end: the patch they leave, or the exception
RECURSIVE RunDrift(_, _, _, _)
RunDrift(patch, steps, p, a) ==
    IF steps = <<>> THEN [patch |-> patch, err |-> ""]
    ELSE LET r == DriftStep(patch, Head(steps), p, a)
         IN  IF r.err # "" THEN r ELSE RunDrift(r.patch, Tail(steps), p, a)

\* a run of the mutator that ended with an exception and wrote nothing
Failed(e) == [err |-> e, patch |-> EmptyMap, log |-> EmptyMap]

\* main as a whole: every outcome a run on the patch with arguments a may
\* have, as [err, patch written, record written]
MutatorOutcomes(patch, a) ==
    IF CANON_KEY \notin DOMAIN patch THEN {Failed("KeyError")}
    ELSE UNION {
        IF flags.use_rename /\ Candidates(patch) = {}
        THEN {Failed("RuntimeError")}
        ELSE {IF ~IsDict(patch[CANON_KEY]) THEN Failed("TypeError")
              ELSE LET r == RunDrift(patch, DriftSteps(p), p, a)
                   IN  IF r.err # "" THEN Failed(r.err)
                       ELSE [err |-> "", patch |-> r.patch, log |-> MutationLog(a, p)] :
                 p \in ParamChoices(patch, a, flags)} :
        flags \in FlagChoices(a)}

(***************************************************************************)
(* Oracle stage: src/03_llm_repair.py with infer_plan_from_patch.  The     *)
(* answer of the language model is not determined by the code; the model   *)
(* lets it be the plan the prompt asks for, or a failure of the stage.     *)
(***************************************************************************)
Action(d) == [isdict |-> TRUE, d |-> d]

NotADict == [isdict |-> FALSE, d |-> EmptyMap]

ListPlan(as) == [kind |-> "list", actions |-> as]

\* the plan schema of the prompt (lines 106-134) filled in from the
\* mutation record: the rename back to the canonical key when a rename
\* was recorded, the unwrap of the recorded wrapper key when a wrap was
CorrectPlan(m) ==
    ListPlan(
        (IF m.use_rename
         THEN <<Action([op |-> "rename_key", path |-> <<>>, from |-> m.rename_to,
                        to |-> CANON_KEY])>>
         ELSE <<>>)
        \o
        (IF m.use_wrap
         THEN <<Action([op |-> "unwrap", path |-> <<CANON_KEY>>,
                        wrapper_key |-> m.wrapper_key])>>
         ELSE <<>>))

\* schema_drift_config.find_functions_key(patch): the canonical key, else
\* the first rename variant present, else None
find_functions_key(patch) ==
    IF CANON_KEY \in DOMAIN patch THEN CANON_KEY
    ELSE IF \E n \in 1..Len(RENAME_VARIANTS) : RENAME_VARIANTS[n] \in DOMAIN patch
    THEN RENAME_VARIANTS[CHOOSE n \in 1..Len(RENAME_VARIANTS) :
            /\ RENAME_VARIANTS[n] \in DOMAIN patch
            /\ \A m \in 1..(n - 1) : RENAME_VARIANTS[m] \notin DOMAIN patch]
    ELSE NoneS

\* schema_drift_config.find_wrapper_key(functions_container): the first
\* wrapper variant whose value in the container is a mapping, else None
find_wrapper_key(functions_container) ==
    IF ~IsDict(functions_container) THEN NoneS
    ELSE LET hit(n) == /\ WRAPPER_VARIANTS[n] \in DOMAIN functions_container.kv
                       /\ IsDict(functions_container.kv[WRAPPER_VARIANTS[n]])
         IN  IF \E n \in 1..Len(WRAPPER_VARIANTS) : hit(n)
             THEN WRAPPER_VARIANTS[CHOOSE n \in 1..Len(WRAPPER_VARIANTS) :
                     hit(n) /\ \A m \in 1..(n - 1) : ~hit(m)]
             ELSE NoneS

\* extract_excerpt(patch): the schema-only excerpt handed to the language
\* model.  Entries the code leaves out of the excerpt are NoneS here; key
\* samples are the key sets (the patches of the model stay below the
\* sample sizes 40 and 25).
extract_excerpt(patch) ==
    LET functions_key == find_functions_key(patch)
        functions_container ==
            IF Truthy(functions_key) THEN patch[functions_key] ELSE NoneVal
        keys == DOMAIN functions_container.kv
        single == /\ IsDict(functions_container)
                  /\ Cardinality(keys) = 1
                  /\ \A k \in keys : IsDict(functions_container.kv[k])
    IN  [top_level_patch_keys_sample |-> DOMAIN patch,
         has_canonical_functions |-> CANON_KEY \in DOMAIN patch,
         possible_renamed_functions_keys_present |->
             SelectSeq(RENAME_VARIANTS, LAMBDA k : k \in DOMAIN patch),
         extra_struct_keys_present |->
             SelectSeq(EXTRA_STRUCT_KEYS, LAMBDA k : k \in DOMAIN patch),
         functions_container_key |-> functions_key,
         functions_container_type |->
             IF IsDict(functions_container) THEN "dict" ELSE "other",
         functions_container_keys_sample |->
             IF IsDict(functions_container) THEN keys ELSE {},
         wrapper_key_detected_by_list |-> find_wrapper_key(functions_container),
         single_key_wrapper_heuristic |->
             IF single THEN CHOOSE k \in keys : TRUE ELSE NoneS]

\* a plan of the validated shape that names a key no patch holds
AbsentFromPlan ==
    ListPlan(<<Action([op |-> "rename_key", path |-> <<>>, from |-> "not_there",
                       to |-> CANON_KEY])>>)

\* the plans the language model may answer with
OraclePlans(m) == {CorrectPlan(m), AbsentFromPlan}

\* a variant of the stage below whose failure does not end the pipeline
OracleFailureIgnored ==
    /\ pc = "oracle"
    /\ \/ /\ \E q \in OraclePlans(mlog.v) : plan' = File(q)
          /\ pc' = "repair"
          /\ err' = err
       \/ /\ \E e \in {"RuntimeError", "ValueError"} : pc' = "repair" /\ err' = e
          /\ plan' = plan
    /\ UNCHANGED <<args, orig, mem, mutated, mlog, repaired, params, todo,
                   sorted, idx, logs, verdict, driver>>

\* 03_llm_repair.py main: write the plan, or end with the exception of
\* infer_plan_from_patch (lines 137-150)
Oracle ==
    /\ pc = "oracle"
    /\ \/ /\ \E q \in OraclePlans(mlog.v) : plan' = File(q)
          /\ pc' = "repair"
          /\ err' = err
       \/ /\ \E e \in {"RuntimeError", "ValueError"} : Fail(e)
          /\ plan' = plan
    /\ UNCHANGED <<args, orig, mem, mutated, mlog, repaired, params, todo,
                   sorted, idx, logs, verdict, driver>>

(***************************************************************************)
(* Repair stage: src/03_repair_patch.py main, stepping through             *)
(* apply_plan_to_patch.                                                    *)
(***************************************************************************)
\* lines 13-22 and apply_plan_to_patch lines 167-175: load, check, sort
RepairStart ==
    /\ pc = "repair"
    /\ mem' = IF mutated.exists THEN mutated.v ELSE mem
    /\ logs' = <<>>
    /\ idx' = 0
    /\ IF ~mutated.exists \/ ~plan.exists
       THEN Fail("FileNotFoundError") /\ sorted' = <<>>
       ELSE IF plan.v.kind = "notlist"
       THEN Fail("ValueError") /\ sorted' = <<>>
       ELSE IF SortRaises(PlanActions(plan.v))
       THEN Fail("TypeError") /\ sorted' = <<>>
       ELSE pc' = "apply" /\ err' = err /\ sorted' = SortActions(PlanActions(plan.v))
    /\ UNCHANGED <<args, orig, mutated, mlog, plan, repaired, params, todo, verdict, driver>>

\* apply_plan_to_patch lines 177-214: one turn of the loop
RepairStep ==
    /\ pc = "apply"
    /\ idx < Len(sorted)
    /\ LET r == ApplyAction(mem, sorted[idx + 1], idx)
       IN  /\ mem' = r.patch
           /\ IF r.raised
              THEN Fail("TypeError") /\ logs' = logs /\ idx' = idx
              ELSE pc' = pc /\ err' = err /\ logs' = Append(logs, r.log) /\ idx' = idx + 1
    /\ UNCHANGED <<args, orig, mutated, mlog, plan, repaired, params, todo,
                   sorted, verdict, driver>>

\* 03_repair_patch.py lines 24-25: write the repaired patch
RepairWrite ==
    /\ pc = "apply"
    /\ idx = Len(sorted)
    /\ repaired' = File(mem)
    /\ pc' = "compare"
    /\ UNCHANGED <<err, args, orig, mem, mutated, mlog, plan, params, todo,
                   sorted, idx, logs, verdict, driver>>

(***************************************************************************)
(* Structural verifier: src/06_compare_original_vs_repaired.py.            *)
(***************************************************************************)
\* summarize_functions(patch)[1]: the sorted keys of the functions
\* container, [] when it is not a dict.  A sorted list of distinct keys is
\* determined by its set of keys, so the list is modelled by the set.
summarize_functions(patch) ==
    LET fns == Get(patch, CANON_KEY, Dict(EmptyMap))
    IN  IF ~IsDict(fns) THEN {} ELSE DOMAIN fns.kv

\* sorted([k for k in patch.keys() if k not in EXTRA_STRUCT_KEYS])
TopKeys(patch) == (DOMAIN patch) \ Range(EXTRA_STRUCT_KEYS)

\* lines 123-126
FunctionsKeysetCheck(o, r) ==
    IF summarize_functions(o) = summarize_functions(r) THEN "PASS" ELSE "FAIL"

\* lines 134-140
TopLevelKeysCheck(o, r) == IF TopKeys(o) = TopKeys(r) THEN "PASS" ELSE "FAIL"

NoVerdict == [functions_keyset |-> "", top_level_keys |-> ""]

\* the scripts of one trial run without the batch driver's options
NoOpts ==
    [trials |-> 1, skip_llm |-> FALSE, skip_compare |-> FALSE,
     mutate_mode |-> NoneS, order |-> NoneS, new_file |-> TRUE]

NoDriver == opts = NoOpts /\ trial = 0 /\ rows = <<>> /\ success_count = 0

\* main, lines 110-142
Compare ==
    /\ pc = "compare"
    /\ repaired.exists
    /\ verdict' = [functions_keyset |-> FunctionsKeysetCheck(orig, repaired.v),
                   top_level_keys |-> TopLevelKeysCheck(orig, repaired.v)]
    /\ pc' = "done"
    /\ UNCHANGED <<err, args, orig, mem, mutated, mlog, plan, repaired, params,
                   todo, sorted, idx, logs, driver>>

(***************************************************************************)
(* Input patches of the pipeline.                                          *)
(***************************************************************************)
FnNames == <<"f1", "f2", "f3", "f4">>

\* an opaque function record
FnRecord == Dict([k \in {"co_argcount"} |-> Leaf(1)])

\* a functions container of n functions
Container(n) == Dict([k \in {FnNames[j] : j \in 1..n} |-> FnRecord])

\* a functions container with a function named like a wrapper variant
ContainerW == Dict([k \in {"wrapper", "f1"} |-> FnRecord])

CanonContainers == {Container(n) : n \in 1..MaxFns} \cup {ContainerW}

\* the top-level entries a patch has beside the functions container
OtherEntries ==
    { EmptyMap,
      [k \in {"function"} |-> Leaf(2)],
      [k \in {"function"} |-> Container(1)],
      [k \in {"funcs"} |-> Leaf(2)],
      [k \in {"extra_struct_1"} |-> Leaf(2)],
      [k \in {"version"} |-> Leaf(2)],
      [k \in Range(RENAME_VARIANTS) |-> Leaf(2)] }

\* canonical patches: 'functions' holds a mapping
CanonicalPatches == {Put(o, CANON_KEY, c) : o \in OtherEntries, c \in CanonContainers}

\* patches that break the mutator's precondition
BrokenPatches ==
    { EmptyMap,
      [k \in {"function"} |-> Container(1)],
      [k \in {CANON_KEY} |-> Leaf(1)],
      Put([k \in Range(RENAME_VARIANTS) |-> Leaf(2)], CANON_KEY, Leaf(1)) }

InputPatches == CanonicalPatches \cup BrokenPatches

\* values of --seed and --trial-id
Seeds == {NoneN, 0, 1}

TrialIds == {NoneN, 1}

Init ==
    /\ pc = "mutate"
    /\ err = ""
    /\ args \in [mode : Modes, order : Orders, seed : Seeds, trial_id : TrialIds]
    /\ orig \in InputPatches
    /\ mem = EmptyMap
    /\ mutated = NoFile
    /\ mlog = NoFile
    /\ plan = NoFile
    /\ repaired = NoFile
    /\ params = NoParams
    /\ todo = <<>>
    /\ sorted = <<>>
    /\ idx = 0
    /\ logs = <<>>
    /\ verdict = NoVerdict
    /\ NoDriver

Next ==
    \/ MutateStart
    \/ MutateSelect
    \/ MutateCheck
    \/ MutateStep
    \/ MutateWrite
    \/ Oracle
    \/ RepairStart
    \/ RepairStep
    \/ RepairWrite
    \/ Compare

Spec == Init /\ [][Next]_vars

(***************************************************************************)
(* The repair stage alone, on any mutated patch and any plan found on      *)
(* disk.                                                                   *)
(***************************************************************************)
\* a container wrapped once and twice under "wrapper"
Wrapped(c) == Dict([k \in {"wrapper"} |-> c])

Docs ==
    { [k \in {CANON_KEY} |-> Container(MaxFns)],
      [k \in {CANON_KEY} |-> Wrapped(Container(MaxFns))],
      [k \in {CANON_KEY} |-> Wrapped(Wrapped(Container(1)))],
      [k \in {CANON_KEY} |-> Dict([k2 \in {"wrapper"} |-> Leaf(1)])],
      [k \in {CANON_KEY} |-> Leaf(1)],
      [k \in {"function"} |-> Wrapped(Container(MaxFns))],
      [k \in {"x"} |-> Wrapped(Wrapped(Container(1)))],
      Put([k \in {CANON_KEY} |-> Container(1)], "x", Leaf(2)),
      Put([k \in {CANON_KEY} |-> Container(1)], "function", Wrapped(Container(MaxFns))),
      EmptyMap }

Rename(path, from, to) ==
    Action([op |-> "rename_key", path |-> path, from |-> from, to |-> to])

UnwrapAt(path, wrapper_key) ==
    Action([op |-> "unwrap", path |-> path, wrapper_key |-> wrapper_key])

\* the entries a plan is built from
PlanEntries ==
    { Rename(<<>>, "function", CANON_KEY),
      Rename(<<>>, CANON_KEY, "function"),
      Rename(<<>>, "x", "function"),
      Rename(<<>>, "function", "x"),
      Rename(<<CANON_KEY>>, "f1", "x"),
      Rename(<<"nope">>, "function", CANON_KEY),
      Action([op |-> "rename_key", path |-> <<>>, to |-> CANON_KEY]),
      Action([op |-> "rename_key", path |-> <<>>, from |-> "function"]),
      UnwrapAt(<<CANON_KEY>>, "wrapper"),
      UnwrapAt(<<CANON_KEY>>, "wrapped"),
      UnwrapAt(<<>>, "wrapper"),
      UnwrapAt(<<"function">>, "wrapper"),
      Action([op |-> "unwrap", wrapper_key |-> "wrapper"]),
      Action([op |-> "unwrap", path |-> <<CANON_KEY>>]),
      NotADict,
      Action([op |-> "delete_key", path |-> <<>>]),
      Action([path |-> <<>>]),
      Action([op |-> UNHASHABLE]),
      Rename(<<>>, UNHASHABLE, CANON_KEY),
      Rename(<<>>, "function", UNHASHABLE),
      UnwrapAt(<<CANON_KEY>>, UNHASHABLE) }

RECURSIVE SeqsUpTo(_, _)
SeqsUpTo(S, n) ==
    IF n = 0 THEN {<<>>}
    ELSE LET shorter == SeqsUpTo(S, n - 1)
         IN  shorter \cup {Append(q, e) : q \in shorter, e \in S}

Plans ==
    {ListPlan(q) : q \in SeqsUpTo(PlanEntries, MaxPlanLen)}
        \cup {[kind |-> "missing", actions |-> <<>>],
              [kind |-> "notlist", actions |-> <<>>]}

InitRepair ==
    /\ pc = "repair"
    /\ err = ""
    /\ args = [mode |-> "wrapper", order |-> "random", seed |-> NoneN, trial_id |-> NoneN]
    /\ orig = EmptyMap
    /\ mem = EmptyMap
    /\ mutated \in {File(d) : d \in Docs}
    /\ mlog = NoFile
    /\ plan \in {File(q) : q \in Plans}
    /\ repaired = NoFile
    /\ params = NoParams
    /\ todo = <<>>
    /\ sorted = <<>>
    /\ idx = 0
    /\ logs = <<>>
    /\ verdict = NoVerdict
    /\ NoDriver

NextRepair ==
    \/ RepairStart
    \/ RepairStep
    \/ RepairWrite

SpecRepair == InitRepair /\ [][NextRepair]_vars

(***************************************************************************)
(* The verifier alone, on any reference patch and any repaired patch found *)
(* on disk.                                                                *)
(***************************************************************************)
\* what a patch may hold under 'functions': nothing, a non-mapping, an
\* empty mapping, a container
FunctionsEntries ==
    {EmptyMap} \cup
    {[k \in {CANON_KEY} |-> v] :
        v \in {Leaf(1), Leaf(2), Dict(EmptyMap)} \cup {Container(n) : n \in 1..MaxFns}}

CompareDocs ==
    {[k \in (DOMAIN f) \cup (DOMAIN o) |-> IF k \in DOMAIN f THEN f[k] ELSE o[k]] :
        f \in FunctionsEntries,
        o \in {EmptyMap, [k \in {"extra_struct_1"} |-> Leaf(2)], [k \in {"version"} |-> Leaf(2)]}}

InitCompare ==
    /\ pc = "compare"
    /\ err = ""
    /\ args = [mode |-> "wrapper", order |-> "random", seed |-> NoneN, trial_id |-> NoneN]
    /\ orig \in CompareDocs
    /\ mem = EmptyMap
    /\ mutated = NoFile
    /\ mlog = NoFile
    /\ plan = NoFile
    /\ repaired \in {File(d) : d \in CompareDocs}
    /\ params = NoParams
    /\ todo = <<>>
    /\ sorted = <<>>
    /\ idx = 0
    /\ logs = <<>>
    /\ verdict = NoVerdict
    /\ NoDriver

NextCompare == Compare

SpecCompare == InitCompare /\ [][NextCompare]_vars

(***************************************************************************)
(* Batch driver: main of run_pipeline.py.  Each stage is a script run by   *)
(* run() with check=True, so a script that ends with an exception ends the *)
(* driver.  04_json_to_pkl.py and, for a single trial, 05_break_demo.py    *)
(* run between repair and comparison: they read the patches written so     *)
(* far, write only pickle copies and console text, and do not raise when   *)
(* the repaired patch exists, so they are part of the step that follows    *)
(* the repair stage.                                                       *)
(***************************************************************************)
\* lines 99-108: the command line of the mutator in trial t
DriverArgs(o, t) ==
    [mode |-> IF o.mutate_mode = NoneS THEN "wrapper" ELSE o.mutate_mode,
     order |-> IF o.order = NoneS THEN "random" ELSE o.order,
     seed |-> t, trial_id |-> t]

\* lines 112-113 with --skip-llm: the oracle stage is not run
DriverSkipOracle ==
    /\ pc = "oracle"
    /\ opts.skip_llm
    /\ pc' = "repair"
    /\ UNCHANGED <<err, args, orig, mem, mutated, mlog, plan, repaired, params,
                   todo, sorted, idx, logs, verdict, driver>>

\* lines 112-113: the oracle stage
DriverOracle == ~opts.skip_llm /\ Oracle

\* lines 116-136: the comparison and the verdict parsed from its output
DriverCompare == ~opts.skip_compare /\ Compare

\* lines 116-124 with --skip-compare: the verdict keeps its defaults
DriverSkipCompare ==
    /\ pc = "compare"
    /\ opts.skip_compare
    /\ verdict' = [functions_keyset |-> "SKIPPED", top_level_keys |-> "SKIPPED"]
    /\ pc' = "done"
    /\ UNCHANGED <<err, args, orig, mem, mutated, mlog, plan, repaired, params,
                   todo, sorted, idx, logs, driver>>

\* lines 149-156: the row of trial t, accuracy as <<passed, completed>>
Row(t, o, v, sc) ==
    [trial_id |-> t,
     mode |-> IF o.mutate_mode = NoneS THEN "default" ELSE o.mutate_mode,
     functions_keyset |-> v.functions_keyset,
     top_level_keys |-> v.top_level_keys,
     accuracy |-> <<sc, t + 1>>]

\* a variant of the step below that counts a trial whose functions keyset
\* passed
RecordRowKeysetOnly ==
    /\ pc = "done"
    /\ LET sc == success_count + (IF verdict.functions_keyset = "PASS" THEN 1 ELSE 0)
       IN  /\ success_count' = sc
           /\ rows' = Append(rows, Row(trial, opts, verdict, sc))
    /\ trial' = trial + 1
    /\ IF trial + 1 < opts.trials
       THEN pc' = "mutate" /\ args' = DriverArgs(opts, trial + 1)
       ELSE pc' = "finished" /\ args' = args
    /\ UNCHANGED <<err, orig, mem, mutated, mlog, plan, repaired, params, todo,
                   sorted, idx, logs, verdict, opts>>

\* a variant of the step below that goes on without writing the row
RecordRowUnwritten ==
    /\ pc = "done"
    /\ success_count' = success_count
          + (IF verdict.functions_keyset = "PASS" /\ verdict.top_level_keys = "PASS"
             THEN 1 ELSE 0)
    /\ rows' = rows
    /\ trial' = trial + 1
    /\ IF trial + 1 < opts.trials
       THEN pc' = "mutate" /\ args' = DriverArgs(opts, trial + 1)
       ELSE pc' = "finished" /\ args' = args
    /\ UNCHANGED <<err, orig, mem, mutated, mlog, plan, repaired, params, todo,
                   sorted, idx, logs, verdict, opts>>

\* lines 143-157 and the loop head: count the trial, write its row, start
\* the next trial or finish
RecordRow ==
    /\ pc = "done"
    /\ LET trial_passed == /\ verdict.functions_keyset = "PASS"
                           /\ verdict.top_level_keys = "PASS"
           sc == success_count + (IF trial_passed THEN 1 ELSE 0)
       IN  /\ success_count' = sc
           /\ rows' = Append(rows, Row(trial, opts, verdict, sc))
    /\ trial' = trial + 1
    /\ IF trial + 1 < opts.trials
       THEN pc' = "mutate" /\ args' = DriverArgs(opts, trial + 1)
       ELSE pc' = "finished" /\ args' = args
    /\ UNCHANGED <<err, orig, mem, mutated, mlog, plan, repaired, params, todo,
                   sorted, idx, logs, verdict, opts>>

\* a row left in trial_results.csv by an earlier invocation (the file is
\* opened for appending)
OldRow ==
    [trial_id |-> 0, mode |-> "default", functions_keyset |-> "PASS",
     top_level_keys |-> "PASS", accuracy |-> <<1, 1>>]

\* the rows the file held when the driver opened it
PriorRows == IF opts.new_file THEN 0 ELSE 1

DriverOpts ==
    [trials : 1..MaxTrials, skip_llm : BOOLEAN, skip_compare : BOOLEAN,
     mutate_mode : {NoneS, "both", "all", "random", "extra"},
     order : {NoneS, "rename_then_wrap"}, new_file : BOOLEAN]

\* reference patches of the driver's runs
DriverPatches ==
    { [k \in {CANON_KEY} |-> Container(MaxFns)],
      [k \in {CANON_KEY} |-> ContainerW],
      [k \in {CANON_KEY} |-> Dict(EmptyMap)],
      Put([k \in {"function"} |-> Container(1)], CANON_KEY, Container(1)),
      Put([k \in Range(RENAME_VARIANTS) |-> Leaf(2)], CANON_KEY, Container(1)),
      [k \in {CANON_KEY} |-> Leaf(1)] }

InitDriver ==
    /\ pc = "mutate"
    /\ err = ""
    /\ opts \in DriverOpts
    /\ args = DriverArgs(opts, 0)
    /\ orig \in DriverPatches
    /\ mem = EmptyMap
    /\ mutated = NoFile
    /\ mlog = NoFile
    /\ plan \in {NoFile, File(AbsentFromPlan)}
    /\ repaired = NoFile
    /\ params = NoParams
    /\ todo = <<>>
    /\ sorted = <<>>
    /\ idx = 0
    /\ logs = <<>>
    /\ verdict = NoVerdict
    /\ trial = 0
    /\ rows = IF opts.new_file THEN <<>> ELSE <<OldRow>>
    /\ success_count = 0

NextDriver ==
    \/ MutateStart
    \/ MutateSelect
    \/ MutateCheck
    \/ MutateStep
    \/ MutateWrite
    \/ DriverOracle
    \/ DriverSkipOracle
    \/ RepairStart
    \/ RepairStep
    \/ RepairWrite
    \/ DriverCompare
    \/ DriverSkipCompare
    \/ RecordRow

SpecDriver == InitDriver /\ [][NextDriver]_vars

(***************************************************************************)
(* Properties of the pipeline (specification Spec).                        *)
(***************************************************************************)
\* the input patch is canonical: 'functions' holds a mapping
Canonical(patch) == CANON_KEY \in DOMAIN patch /\ IsDict(patch[CANON_KEY])

\* the mutator ended with an exception (the later stages fail only after
\* the mutated patch was written)
MutatorFailed == pc = "failed" /\ ~mutated.exists

\* the mutator is still running or has failed
InMutator == pc \in {"mutate", "select", "check", "drift"} \/ MutatorFailed

\* the rename family is active in this run
RenameActive == params.use_rename \/ (MutatorFailed /\ err = "RuntimeError")

\* C1: round trip.  For a canonical input patch, every mode and order and
\* every random draw, the mutation fails only when no rename variant is
\* free, and after the plan that inverts the recorded drift the verifier
\* prints PASS for the functions keyset and PASS for the top-level keys.
C1_RoundTrip ==
    Canonical(orig) =>
        /\ MutatorFailed => Candidates(orig) = {}
        /\ (pc = "done" /\ plan.v = CorrectPlan(mlog.v)) =>
              /\ verdict.functions_keyset = "PASS"
              /\ verdict.top_level_keys = "PASS"

\* C9: mutator precondition.  When the input patch has no 'functions' key
\* or its value is not a mapping, the run never gets to the drift steps:
\* it is still before them (and can take a step) or has failed, the
\* in-memory patch is the input patch, and neither the mutated patch nor
\* the mutation record has been written.
C9_Precondition ==
    ~Canonical(orig) =>
        /\ pc \in {"mutate", "select", "check", "failed"}
        /\ pc # "failed" => ENABLED Next
        /\ pc # "mutate" => mem = orig
        /\ ~mutated.exists
        /\ ~mlog.exists

\* C9 witness: a patch whose 'functions' value is no mapping passed the
\* selection of a noise-only run and then failed the type check
C9_Witness ==
    /\ CANON_KEY \in DOMAIN orig
    /\ ~IsDict(orig[CANON_KEY])
    /\ args.mode = "extra"
    /\ pc = "failed"
    /\ err = "TypeError"

\* C10: rename target selection.  With the rename family active on a
\* canonical patch, the chosen target is a rename variant that is no
\* top-level key of the input, the written patch has no 'functions' key
\* and holds the (possibly wrapped) container under the target, and the
\* mutator fails exactly when every rename variant is a top-level key of
\* the input.
C10_RenameTarget ==
    (Canonical(orig) /\ RenameActive) =>
        /\ params.use_rename =>
              /\ params.rename_to \in Range(RENAME_VARIANTS)
              /\ params.rename_to \notin DOMAIN orig
        /\ mutated.exists =>
              /\ CANON_KEY \notin DOMAIN mutated.v
              /\ params.rename_to \in DOMAIN mutated.v
              /\ mutated.v[params.rename_to] \in
                     {orig[CANON_KEY],
                      Dict([k \in {params.wrapper_key} |-> orig[CANON_KEY]])}
        /\ MutatorFailed <=> (pc = "failed" /\ Candidates(orig) = {})

(***************************************************************************)
(* Properties of the repair engine (specification SpecRepair).             *)
(***************************************************************************)
\* the loop is about to handle the action Cur
Stepping == pc = "apply" /\ idx < Len(sorted)

Cur == sorted[idx + 1]

\* a field that holds a non-empty string
IsStr(s) == Truthy(s) /\ s # UNHASHABLE

IsRenameAction(a) == a.isdict /\ AGet(a, "op") = "rename_key"

IsUnwrapAction(a) == a.isdict /\ AGet(a, "op") = "unwrap"

\* the kind a log line gives to an action
KindOf(a) ==
    IF ~a.isdict THEN "invalid"
    ELSE IF AGet(a, "op") = "rename_key" THEN "rename_key"
    ELSE IF AGet(a, "op") = "unwrap" THEN "unwrap"
    ELSE "unknown"

Outcomes(ls) == {ls[k].outcome : k \in 1..Len(ls)}

\* some line of ls says that an action of kind op had the given outcome
Logged(ls, op, outcome) ==
    \E k \in 1..Len(ls) : ls[k].op = op /\ ls[k].outcome = outcome

\* the mapping a path of at most one segment addresses in a patch
Resolve(patch, path) ==
    IF path = <<>> THEN [ok |-> TRUE, m |-> patch]
    ELSE IF Len(path) = 1 /\ path[1] \in DOMAIN patch /\ IsDict(patch[path[1]])
    THEN [ok |-> TRUE, m |-> patch[path[1]].kv]
    ELSE [ok |-> FALSE, m |-> EmptyMap]

\* the patch with the mapping at the path replaced by m
SetAt(patch, path, m) == IF path = <<>> THEN m ELSE Put(patch, path[1], Dict(m))

\* C2 as stated: for any document and any plan, a second application of
\* the plan to the repaired patch returns normally, changes nothing and
\* logs no action as applied.
C2_Idempotent ==
    pc = "compare" =>
        LET again == ApplyPlan(repaired.v, plan.v)
        IN  /\ again.err = ""
            /\ again.patch = repaired.v
            /\ "Applied" \notin Outcomes(again.logs)

\* the plan holds at most one rename_key and at most one unwrap action
AtMostOneEach(as) ==
    /\ Len(SelectSeq(as, IsRenameAction)) <= 1
    /\ Len(SelectSeq(as, IsUnwrapAction)) <= 1

\* no top-level value of the patch is wrapped twice under wrapper key wk
NotTwiceWrapped(patch, wk) ==
    \A k \in DOMAIN patch :
        ~(/\ IsDict(patch[k])
          /\ wk \in DOMAIN patch[k].kv
          /\ IsDict(patch[k].kv[wk])
          /\ wk \in DOMAIN patch[k].kv[wk].kv
          /\ IsDict(patch[k].kv[wk].kv[wk]))

C2_Pre ==
    /\ AtMostOneEach(PlanActions(plan.v))
    /\ \A k \in 1..Len(PlanActions(plan.v)) :
          IsUnwrapAction(PlanActions(plan.v)[k]) =>
              NotTwiceWrapped(mutated.v, AGet(PlanActions(plan.v)[k], "wrapper_key"))

\* C2 amended: for any document and any plan with at most one rename_key
\* and at most one unwrap action, when no top-level value of the document
\* is wrapped twice under the unwrap's wrapper key, a second application
\* of the plan to the repaired patch returns normally, changes nothing
\* and logs no action as applied.
C2_IdempotentSinglePlan ==
    (pc = "compare" /\ C2_Pre) =>
        LET again == ApplyPlan(repaired.v, plan.v)
        IN  /\ again.err = ""
            /\ again.patch = repaired.v
            /\ "Applied" \notin Outcomes(again.logs)

\* C2 witness: a plan of one rename and one unwrap applied both to a
\* document wrapped once, and the repaired patch was written
C2_Witness ==
    /\ pc = "compare"
    /\ C2_Pre
    /\ Logged(logs, "rename_key", "Applied")
    /\ Logged(logs, "unwrap", "Applied")

RenamesFirst(as) ==
    SelectSeq(as, IsRenameAction) \o SelectSeq(as, LAMBDA a : ~IsRenameAction(a))

UnwrapsFirst(as) ==
    SelectSeq(as, IsUnwrapAction) \o SelectSeq(as, LAMBDA a : ~IsUnwrapAction(a))

\* C3: fixed priority order.  The log, which has one line per handled
\* action in the order handled, never has an unwrap line before a
\* rename_key line nor an unknown or invalid line before either; actions
\* of one kind are handled in their plan order; and the repaired patch is
\* the one the plan gives when its renames, or its unwraps, are listed
\* first.
C3_FixedPriority ==
    /\ \A j \in 1..Len(logs), k \in 1..Len(logs) :
          j < k =>
              /\ ~(logs[j].op = "unwrap" /\ logs[k].op = "rename_key")
              /\ logs[j].op \in {"invalid", "unknown"}
                    => logs[k].op \in {"invalid", "unknown"}
    /\ \A k \in 1..Len(logs) : logs[k].i = k - 1 /\ logs[k].op = KindOf(sorted[k])
    /\ pc \in {"apply", "compare"} =>
          /\ SelectSeq(sorted, IsRenameAction)
                = SelectSeq(PlanActions(plan.v), IsRenameAction)
          /\ SelectSeq(sorted, IsUnwrapAction)
                = SelectSeq(PlanActions(plan.v), IsUnwrapAction)
          /\ SelectSeq(sorted, HasPriority99)
                = SelectSeq(PlanActions(plan.v), HasPriority99)
    /\ pc = "compare" =>
          /\ repaired.v
                = ApplyPlan(mutated.v, ListPlan(RenamesFirst(PlanActions(plan.v)))).patch
          /\ repaired.v
                = ApplyPlan(mutated.v, ListPlan(UnwrapsFirst(PlanActions(plan.v)))).patch

\* C3 witness: the plan lists an unwrap before a rename_key, both were
\* applied, the rename first
C3_Witness ==
    /\ pc = "compare"
    /\ Len(plan.v.actions) = 2
    /\ IsUnwrapAction(plan.v.actions[1])
    /\ IsRenameAction(plan.v.actions[2])
    /\ logs[1] = Log(0, "rename_key", "Applied")
    /\ logs[2] = Log(1, "unwrap", "Applied")

\* C4 as stated: a rename_key action with string from and to, whose path
\* addresses a mapping, moves the value from 'from' to 'to' in that
\* mapping when 'from' is present and 'to' absent in it and logs it as
\* applied; otherwise the patch is unchanged, a no-change line is logged
\* and nothing is raised.
C4_RenameAddressed ==
    [][ (/\ Stepping
         /\ IsRenameAction(Cur)
         /\ IsStr(AGet(Cur, "from"))
         /\ IsStr(AGet(Cur, "to"))
         /\ Resolve(mem, APath(Cur)).ok)
        => LET m == Resolve(mem, APath(Cur)).m
               src == AGet(Cur, "from")
               dst == AGet(Cur, "to")
           IN  IF src \in DOMAIN m /\ dst \notin DOMAIN m
               THEN /\ mem' = SetAt(mem, APath(Cur), Move(m, src, dst))
                    /\ logs' = Append(logs, Log(idx, "rename_key", "Applied"))
               ELSE /\ mem' = mem
                    /\ logs' = Append(logs, Log(idx, "rename_key", "No change"))
                    /\ pc' # "failed" ]_vars

\* C5 as stated: a rename_key action whose path names a missing or
\* non-mapping segment is logged as skipped and leaves the patch
\* unchanged, and a rename_key action with a non-empty path never renames
\* a key of the top-level mapping.
C5_RenamePath ==
    [][ (/\ Stepping
         /\ IsRenameAction(Cur)
         /\ IsStr(AGet(Cur, "from"))
         /\ IsStr(AGet(Cur, "to")))
        => /\ ~Resolve(mem, APath(Cur)).ok =>
                 /\ mem' = mem
                 /\ logs' = Append(logs, Log(idx, "rename_key", "Skipped"))
           /\ APath(Cur) # <<>> => DOMAIN mem' = DOMAIN mem ]_vars

\* patch['functions'] is a mapping that holds a mapping under wk
Unwrappable(patch, wk) ==
    /\ CANON_KEY \in DOMAIN patch
    /\ IsDict(patch[CANON_KEY])
    /\ wk \in DOMAIN patch[CANON_KEY].kv
    /\ IsDict(patch[CANON_KEY].kv[wk])

\* C6: an unwrap action with path ['functions'] and a string wrapper key
\* replaces patch['functions'] by patch['functions'][wrapper_key] and is
\* logged as applied exactly when patch['functions'] is a mapping holding
\* a mapping under the wrapper key; otherwise the patch is unchanged and
\* a no-change line is logged.
C6_Unwrap ==
    [][ (/\ Stepping
         /\ IsUnwrapAction(Cur)
         /\ APath(Cur) = <<CANON_KEY>>
         /\ IsStr(AGet(Cur, "wrapper_key")))
        => LET wk == AGet(Cur, "wrapper_key")
           IN  IF Unwrappable(mem, wk)
               THEN /\ mem' = [mem EXCEPT ![CANON_KEY] = mem[CANON_KEY].kv[wk]]
                    /\ logs' = Append(logs, Log(idx, "unwrap", "Applied"))
                    /\ pc' = "apply"
               ELSE /\ mem' = mem
                    /\ logs' = Append(logs, Log(idx, "unwrap", "No change"))
                    /\ pc' = "apply" ]_vars

\* C6 witness: one run logged an applied unwrap and a no-change unwrap,
\* and the repaired patch was written
C6_Witness ==
    /\ pc = "compare"
    /\ Logged(logs, "unwrap", "Applied")
    /\ Logged(logs, "unwrap", "No change")
    /\ repaired.v # mutated.v

\* C7: an unwrap action whose path is not ['functions'] or whose
\* wrapper_key is missing is logged as skipped and leaves the patch
\* unchanged, the loop goes on with the next action, and a run that
\* writes the repaired patch has logged every action of the plan.
C7_UnwrapRejected ==
    [][ /\ (/\ Stepping
            /\ IsUnwrapAction(Cur)
            /\ (APath(Cur) # <<CANON_KEY>> \/ ~Truthy(AGet(Cur, "wrapper_key"))))
           => /\ mem' = mem
              /\ logs' = Append(logs, Log(idx, "unwrap", "Skipped"))
              /\ pc' = "apply"
              /\ idx' = idx + 1
        /\ pc' = "compare" => Len(logs') = Len(PlanActions(plan'.v)) ]_vars

\* C7 witness: an unwrap of a patch wrapped under 'function' was skipped
\* for its path, and the action after it was applied
C7_Witness ==
    /\ pc = "compare"
    /\ \E k \in 1..Len(logs) :
          /\ logs[k] = Log(k - 1, "unwrap", "Skipped")
          /\ APath(sorted[k]) \in {<<>>, <<"function">>}
          /\ k < Len(logs)
          /\ logs[k + 1].outcome = "Applied"

\* an action the engine can act on
WellFormed(a) ==
    \/ /\ IsRenameAction(a)
       /\ Truthy(AGet(a, "from"))
       /\ Truthy(AGet(a, "to"))
    \/ /\ IsUnwrapAction(a)
       /\ APath(a) = <<CANON_KEY>>
       /\ Truthy(AGet(a, "wrapper_key"))

\* C8 as stated: for a plan whose 'actions' is a list the repair never
\* raises, the repaired patch is the one the plan gives with its
\* malformed actions removed, and the log has one line per action.
C8_Isolation ==
    (plan.v.kind = "list") =>
        /\ pc # "failed"
        /\ pc = "compare" =>
              /\ repaired.v
                    = ApplyPlan(mutated.v,
                                ListPlan(SelectSeq(plan.v.actions, WellFormed))).patch
              /\ Len(logs) = Len(plan.v.actions)

(***************************************************************************)
(* Properties of the mutator (specification Spec).                         *)
(***************************************************************************)
\* the key that holds the functions container after the recorded drifts
ContainerKey(p) == IF p.use_rename THEN p.rename_to ELSE CANON_KEY

\* C11 as stated: whenever the wrap family is active, in the mutated patch
\* the key holding the functions container (the canonical key, or the
\* chosen rename target) maps to {wrapper_key: original functions mapping},
\* and every other top-level entry of the input patch is unchanged.
C11_WrapTarget ==
    (Canonical(orig) /\ mutated.exists /\ params.use_wrap) =>
        /\ ContainerKey(params) \in DOMAIN mutated.v
        /\ mutated.v[ContainerKey(params)]
              = Dict([k \in {params.wrapper_key} |-> orig[CANON_KEY]])
        /\ \A k \in (DOMAIN orig) \ {CANON_KEY} :
              k \in DOMAIN mutated.v /\ mutated.v[k] = orig[k]

\* the mutator is about to run add_extra_struct
NoiseStep == pc = "drift" /\ todo # <<>> /\ Head(todo) = "extra"

\* C12: noise is inert.  The noise step raises nothing, keeps every
\* top-level entry it finds (the functions container included), and adds
\* at most one key, the chosen key of the noise vocabulary; in mode extra
\* the patch it leaves passes both verifier checks against the input
\* patch, and so does the repaired patch at the end of the pipeline.
C12_NoiseInert ==
    [][ /\ NoiseStep =>
            /\ pc' # "failed"
            /\ \A k \in DOMAIN mem : k \in DOMAIN mem' /\ mem'[k] = mem[k]
            /\ (DOMAIN mem') \ (DOMAIN mem)
                  \subseteq ({params.extra_key} \cap Range(EXTRA_STRUCT_KEYS))
            /\ args.mode = "extra" =>
                  /\ mem = orig
                  /\ FunctionsKeysetCheck(orig, mem') = "PASS"
                  /\ TopLevelKeysCheck(orig, mem') = "PASS"
        /\ (args.mode = "extra" /\ pc = "compare" /\ pc' = "done") =>
              /\ verdict'.functions_keyset = "PASS"
              /\ verdict'.top_level_keys = "PASS" ]_vars

\* C12 witness: a noise-only run added a key the input patch did not have
\* and the verifier has compared the result with the input patch
C12_Witness ==
    /\ pc = "done"
    /\ args.mode = "extra"
    /\ params.extra_key \notin DOMAIN orig
    /\ params.extra_key \in DOMAIN repaired.v
    /\ DOMAIN repaired.v # DOMAIN orig

\* this step of the mutator moves the canonical key away
RenameHappens == pc = "drift" /\ CANON_KEY \in DOMAIN mem /\ CANON_KEY \notin DOMAIN mem'

\* this step of the mutator wraps a top-level value under the wrapper key
WrapHappens ==
    /\ pc = "drift"
    /\ \E k \in DOMAIN mem :
          /\ k \in DOMAIN mem'
          /\ mem'[k] = Dict([w \in {params.wrapper_key} |-> mem[k]])

\* C13: the realized order is recorded.  The order is chosen while the
\* patch is still the input patch and is not changed afterwards; it is
\* rename_then_wrap or wrap_then_rename exactly when both rename and wrap
\* are active and n/a otherwise, and it is the order argument when that is
\* not random; the mutation record holds it; and the rename and the wrap
\* happen in that order: under rename_then_wrap the rename moves the
\* unwrapped container and the wrap finds the canonical key gone, under
\* wrap_then_rename the wrap acts on the input patch and the rename moves
\* the wrapped container.
C13_OrderRecorded ==
    [][ /\ (pc = "select" /\ pc' = "check") =>
              /\ mem' = orig
              /\ IF params'.use_rename /\ params'.use_wrap
                 THEN /\ params'.order \in {"rename_then_wrap", "wrap_then_rename"}
                      /\ args.order # "random" => params'.order = args.order
                 ELSE params'.order = "n/a"
        /\ pc \in {"check", "drift"} => params' = params
        /\ mlog' # mlog => mlog'.v.order = params.order
        /\ (params.use_rename /\ params.use_wrap /\ params.order = "rename_then_wrap") =>
              /\ RenameHappens => mem[CANON_KEY] = orig[CANON_KEY]
              /\ WrapHappens => CANON_KEY \notin DOMAIN mem
        /\ (params.use_rename /\ params.use_wrap /\ params.order = "wrap_then_rename") =>
              /\ WrapHappens => mem = orig
              /\ RenameHappens =>
                    mem[CANON_KEY] = Dict([w \in {params.wrapper_key} |-> orig[CANON_KEY]]) ]_vars

\* C13 witness: the order argument was random, wrap_then_rename was drawn
\* and recorded, and the mutated patch holds the wrapped container under
\* the rename target
C13_Witness ==
    /\ mlog.exists
    /\ args.order = "random"
    /\ mlog.v.order = "wrap_then_rename"
    /\ mlog.v.rename_to \in DOMAIN mutated.v
    /\ mutated.v[mlog.v.rename_to]
          = Dict([w \in {mlog.v.wrapper_key} |-> orig[CANON_KEY]])

\* C14 as stated: determinism.  When a run of the mutator has written
\* its files, every run on the same input patch with the same seed, mode
\* and order, whatever its trial identifier and ambient random state,
\* writes the same mutated patch, and with the same trial identifier the
\* same mutation record.
C14_Determinism ==
    pc = "oracle" =>
        \A tid \in TrialIds :
            \A o \in MutatorOutcomes(orig, [args EXCEPT !.trial_id = tid]) :
                /\ o.err = ""
                /\ o.patch = mutated.v
                /\ tid = args.trial_id => o.log = mlog.v

(***************************************************************************)
(* Properties of the verifier (specification SpecCompare).                 *)
(***************************************************************************)
\* the patch has a value under 'functions' that is not a mapping
FunctionsNotADict(patch) == CANON_KEY \in DOMAIN patch /\ ~IsDict(patch[CANON_KEY])

\* C15 as stated: whenever the value under 'functions' is not a mapping
\* in the original or in the repaired patch, the functions-keyset check
\* reports FAIL.
C15_NotADictFails ==
    (pc = "done" /\ (FunctionsNotADict(orig) \/ FunctionsNotADict(repaired.v))) =>
        verdict.functions_keyset = "FAIL"

(***************************************************************************)
(* Properties of the pipeline with a wrong plan (specification Spec).      *)
(***************************************************************************)
\* the plan's only action is a rename_key whose 'from' the patch lacks
RenamesAbsentKey(p, patch) ==
    /\ p.kind = "list"
    /\ Len(p.actions) = 1
    /\ IsRenameAction(p.actions[1])
    /\ IsStr(AGet(p.actions[1], "from"))
    /\ IsStr(AGet(p.actions[1], "to"))
    /\ AGet(p.actions[1], "from") \notin DOMAIN patch

\* C17: negative scenario.  For a canonical patch mutated by a rename, so
\* that 'functions' is absent, and a plan whose only action renames a key
\* the mutated patch lacks, the repair raises nothing, logs one no-change
\* line and writes the mutated patch unchanged, and the verifier does not
\* print PASS for both checks.
C17_NegativeScenario ==
    (/\ Canonical(orig)
     /\ mutated.exists
     /\ CANON_KEY \notin DOMAIN mutated.v
     /\ plan.exists
     /\ RenamesAbsentKey(plan.v, mutated.v)) =>
        /\ pc \in {"repair", "apply", "compare", "done"}
        /\ pc = "apply" => mem = mutated.v
        /\ pc \in {"compare", "done"} =>
              /\ logs = <<Log(0, "rename_key", "No change")>>
              /\ repaired.v = mutated.v
        /\ pc = "done" =>
              ~(verdict.functions_keyset = "PASS" /\ verdict.top_level_keys = "PASS")

\* C17 witness: a rename-only mutation, the plan naming an absent key, and
\* the verifier has printed its verdict
C17_Witness ==
    /\ pc = "done"
    /\ args.mode = "rename"
    /\ CANON_KEY \notin DOMAIN mutated.v
    /\ RenamesAbsentKey(plan.v, mutated.v)
    /\ logs = <<Log(0, "rename_key", "No change")>>
    /\ verdict.top_level_keys = "FAIL"

(***************************************************************************)
(* Properties of the batch driver (specification SpecDriver).              *)
(***************************************************************************)
\* the stage a position of the pipeline belongs to
StageRank(p) ==
    IF p \in {"mutate", "select", "check", "drift"} THEN 1
    ELSE IF p = "oracle" THEN 2
    ELSE IF p \in {"repair", "apply"} THEN 3
    ELSE IF p = "compare" THEN 4
    ELSE IF p = "done" THEN 5
    ELSE 0

InStage(p) == StageRank(p) \in 1..4

\* C16: overall verdict.  The functions-keyset verdict is PASS exactly
\* when the function-key lists of the original and the repaired patch are
\* equal, the top-level verdict is PASS exactly when the top-level key
\* sets are equal once the noise keys are removed from both, each whatever
\* the other is; a trial is counted as passed exactly when the comparison
\* ran and both hold; and the success count never exceeds the number of
\* trials completed.
C16_OverallVerdict ==
    [][ /\ (pc = "compare" /\ pc' = "done" /\ ~opts.skip_compare) =>
              /\ verdict'.functions_keyset = "PASS"
                    <=> summarize_functions(orig) = summarize_functions(repaired.v)
              /\ verdict'.functions_keyset \in {"PASS", "FAIL"}
              /\ verdict'.top_level_keys = "PASS"
                    <=> (DOMAIN orig) \ Range(EXTRA_STRUCT_KEYS)
                           = (DOMAIN repaired.v) \ Range(EXTRA_STRUCT_KEYS)
              /\ verdict'.top_level_keys \in {"PASS", "FAIL"}
        /\ trial' # trial =>
              success_count' - success_count =
                 (IF /\ ~opts.skip_compare
                     /\ summarize_functions(orig) = summarize_functions(repaired.v)
                     /\ (DOMAIN orig) \ Range(EXTRA_STRUCT_KEYS)
                           = (DOMAIN repaired.v) \ Range(EXTRA_STRUCT_KEYS)
                  THEN 1 ELSE 0)
        /\ success_count' <= trial' ]_vars

\* C16 witness: the driver finished two trials, one counted as passed and
\* one whose functions keyset passed while its top-level keys failed
C16_Witness ==
    /\ pc = "finished"
    /\ trial = 2
    /\ success_count = 1
    /\ \E k \in 1..Len(rows) :
          rows[k].functions_keyset = "PASS" /\ rows[k].top_level_keys = "FAIL"

\* C18: stage order of a trial.  The pipeline moves from the mutator to
\* the oracle, to the repair, to the comparison, to the outcome row, never
\* back and never past a stage; the oracle writes a plan unless it is
\* skipped and the comparison gives a verdict unless it is skipped; a row
\* is written only at the end of a trial and carries its number; every
\* stage of a trial runs with exactly the rows of the earlier trials
\* written; and a driver that finishes has written one row per trial.
C18_StageOrder ==
    [][ /\ pc' # pc =>
              \/ pc' = "failed"
              \/ StageRank(pc') = StageRank(pc) /\ InStage(pc)
              \/ StageRank(pc') = StageRank(pc) + 1
              \/ pc = "done" /\ pc' \in {"mutate", "finished"}
        /\ (pc = "oracle" /\ pc' = "repair") =>
              IF opts.skip_llm THEN plan' = plan
              ELSE plan'.exists /\ plan'.v \in OraclePlans(mlog.v)
        /\ (pc = "compare" /\ pc' = "done") =>
              IF opts.skip_compare THEN verdict'.functions_keyset = "SKIPPED"
              ELSE verdict'.functions_keyset \in {"PASS", "FAIL"}
        /\ (rows' # rows \/ trial' # trial) =>
              /\ pc = "done"
              /\ trial' = trial + 1
              /\ Len(rows') = Len(rows) + 1
              /\ rows'[Len(rows')].trial_id = trial
              /\ \A k \in 1..Len(rows) : rows'[k] = rows[k]
        /\ Len(rows') = PriorRows + trial'
        /\ InStage(pc') => trial' < opts.trials
        /\ pc' = "finished" => trial' = opts.trials ]_vars

\* C18 witness: the last of several trials is in its repair stage after
\* its oracle stage, with the rows of the earlier trials written
C18_Witness ==
    /\ pc = "apply"
    /\ trial = opts.trials - 1
    /\ trial >= 1
    /\ ~opts.skip_llm
    /\ mlog.v.trial_id = trial
    /\ Len(rows) = PriorRows + trial

\* C19: an oracle failure is fatal.  When the oracle stage fails, no plan,
\* repaired patch, verdict or row is written, and the pipeline stops: no
\* step follows a failure, and no stage runs after an exception.
C19_OracleFatal ==
    [][ /\ (pc = "oracle" /\ pc' = "failed") =>
              /\ ~opts.skip_llm
              /\ err' \in {"RuntimeError", "ValueError"}
              /\ plan' = plan
              /\ repaired' = repaired
              /\ verdict' = verdict
              /\ rows' = rows
        /\ pc # "failed"
        /\ err' # "" => pc' = "failed"
        /\ (pc = "oracle" /\ pc' = "repair" /\ ~opts.skip_llm) =>
              plan'.exists /\ plan'.v \in OraclePlans(mlog.v) ]_vars

\* C19 witness: the oracle failed in the second trial, after the mutator
\* of that trial wrote its patch, with the plan and the repaired patch of
\* the first trial still on disk
C19_Witness ==
    /\ pc = "failed"
    /\ err \in {"RuntimeError", "ValueError"}
    /\ ~opts.skip_llm
    /\ trial = 1
    /\ mlog.exists /\ mlog.v.trial_id = 1
    /\ plan.exists
    /\ repaired.exists
    /\ Len(rows) = PriorRows + 1

\* C20 as stated: the mutation record is truthful.  In the files the
\* mutator writes for a canonical input patch, a recorded rename has the
\* functions container under rename_to and no canonical key, a recorded
\* wrap has the container under wrapper_key one level below its key, and
\* a recorded noise drift has the noise record of this run under
\* extra_struct_key.
C20_RecordTruthful ==
    (Canonical(orig) /\ pc = "oracle") =>
        /\ mlog.v.use_rename =>
              /\ CANON_KEY \notin DOMAIN mutated.v
              /\ mlog.v.rename_to \in DOMAIN mutated.v
              /\ mutated.v[mlog.v.rename_to] \in
                    {orig[CANON_KEY],
                     Dict([w \in {mlog.v.wrapper_key} |-> orig[CANON_KEY]])}
        /\ mlog.v.use_wrap =>
              /\ ContainerKey(mlog.v) \in DOMAIN mutated.v
              /\ mutated.v[ContainerKey(mlog.v)]
                    = Dict([w \in {mlog.v.wrapper_key} |-> orig[CANON_KEY]])
        /\ mlog.v.use_extra_struct =>
              /\ mlog.v.extra_struct_key \in DOMAIN mutated.v
              /\ mutated.v[mlog.v.extra_struct_key] = Marker(args)

\* C21 as stated: the excerpt names the real container key.  For the
\* patch the mutator wrote, the excerpt's functions_container_key is the
\* top-level key that holds the functions container: the canonical key
\* when no rename was recorded and the recorded rename target otherwise,
\* also when the patch has other rename-variant keys; it is None only
\* when neither the canonical key nor a rename variant is present; and
\* the stage that extracts the excerpt leaves the mutated patch as it is.
C21_ExcerptKey ==
    [][pc = "oracle" =>
        LET e == extract_excerpt(mutated.v)
        IN  /\ e.functions_container_key = ContainerKey(mlog.v)
            /\ (e.functions_container_key = NoneS) =>
                   (~e.has_canonical_functions
                    /\ e.possible_renamed_functions_keys_present = <<>>)
            /\ mutated' = mutated]_vars

\* the drift branches run on the input patch with the chosen parameters
\* and the given order: the patch emitted, or the exception
DriftOutcome(order) ==
    LET p == [params EXCEPT !.order = order]
        r == RunDrift(orig, DriftSteps(p), p, args)
    IN  IF r.err # "" THEN [err |-> r.err, patch |-> EmptyMap] ELSE r

\* C22 as stated: order symmetry of the mutator.  For a canonical patch
\* and a fixed choice of rename target, wrapper key and noise key, the
\* mutation with order rename_then_wrap and the one with order
\* wrap_then_rename emit the same mutated patch, in which the rename
\* target holds {wrapper_key: original functions mapping}, and one
\* succeeds exactly when the other does.
C22_OrderSymmetry ==
    (Canonical(orig) /\ params.use_rename /\ params.use_wrap) =>
        LET a == DriftOutcome("rename_then_wrap")
            b == DriftOutcome("wrap_then_rename")
        IN  /\ (a.err = "") <=> (b.err = "")
            /\ a.patch = b.patch
            /\ mutated.exists =>
                  /\ mutated.v = a.patch
                  /\ params.rename_to \in DOMAIN mutated.v
                  /\ mutated.v[params.rename_to]
                        = Dict([w \in {params.wrapper_key} |-> orig[CANON_KEY]])

(***************************************************************************)
(* Frame of apply_plan_to_patch (specification SpecRepair).                *)
(***************************************************************************)
\* the top-level values of a patch with their multiplicities
TopLevelValues(patch) ==
    [v \in {patch[k] : k \in DOMAIN patch} |->
        Cardinality({k \in DOMAIN patch : patch[k] = v})]

\* the mappings nested inside a value, at any depth below it
RECURSIVE InnerMappings(_)
InnerMappings(v) ==
    IF ~IsDict(v) THEN {}
    ELSE UNION {{v.kv[k]} \cup InnerMappings(v.kv[k]) :
                   k \in {x \in DOMAIN v.kv : IsDict(v.kv[x])}}

\* the 'from' and 'to' of the rename_key actions of a plan
RenameKeys(actions) ==
    UNION {{AGet(a, "from"), AGet(a, "to")} :
              a \in {x \in Range(actions) : IsRenameAction(x)}}

\* the top-level keys of a patch a plan does not address
Unaddressed(patch, actions) ==
    (DOMAIN patch) \ (RenameKeys(actions) \cup {CANON_KEY})

\* the top-level values of p are those of q, except that the value under
\* 'functions' in q may be a mapping nested inside one value of p
ValuesKept(p, q) ==
    \/ TopLevelValues(q) = TopLevelValues(p)
    \/ /\ CANON_KEY \in DOMAIN q
       /\ \E k \in DOMAIN p :
             /\ q[CANON_KEY] \in InnerMappings(p[k])
             /\ TopLevelValues(Without(q, CANON_KEY)) = TopLevelValues(Without(p, k))

\* the patch in memory once apply_plan_to_patch has been entered: as the
\* loop has left it so far, at its return, or at the exception it raised
InApply == mutated.exists /\ plan.exists /\ pc \in {"apply", "compare", "failed"}

\* C23: frame of plan application.  For every patch and every plan,
\* apply_plan_to_patch preserves the number of top-level keys, never drops
\* or duplicates a top-level value other than replacing the value under
\* 'functions' by one of its own inner mappings, and leaves untouched
\* every top-level key that is neither the 'from' or 'to' of a rename_key
\* action of the plan nor the key 'functions'; the file written holds the
\* patch the call left.
C23_Frame ==
    InApply =>
        /\ Cardinality(DOMAIN mem) = Cardinality(DOMAIN mutated.v)
        /\ ValuesKept(mutated.v, mem)
        /\ Unaddressed(mem, PlanActions(plan.v))
              = Unaddressed(mutated.v, PlanActions(plan.v))
        /\ \A k \in Unaddressed(mutated.v, PlanActions(plan.v)) :
              mem[k] = mutated.v[k]
        /\ repaired.exists => repaired.v = mem

\* a plan whose rename and whose unwrap were both applied has been written
\* out, changing the patch
C23_Witness ==
    /\ pc = "compare"
    /\ Logged(logs, "rename_key", "Applied")
    /\ Logged(logs, "unwrap", "Applied")
    /\ repaired.v # mutated.v

====
